---- MODULE Spec2Model ----
(***************************************************************************)
(* A model of the plaid-go client: the response decoder unmarshalPostMFA,  *)
(* the error model plaidError, the transport helpers postAndUnmarshal,     *)
(* patchAndUnmarshal and deleteAndUnmarshal, and the Transactions wrapper. *)
(*                                                                         *)
(* JSON documents are tagged records: k is the JSON kind, and the payload  *)
(* sits in a field named after the kind, so that values of different kinds *)
(* never share a field.  Go strings built from runes are sequences of code *)
(* points.                                                                 *)
(***************************************************************************)
EXTENDS Integers, Sequences, FiniteSets, TLC

\* ------------------------------------------------------------------ bounds

\* The number of concurrent callers sharing one Client.
NumCallers == 2
\* The longest mfa array the server sends.
MaxEntries == 2
\* The longest answers array inside one selections entry.
MaxAnswers == 3

\* ------------------------------------------------------------- JSON values

\* Raw bytes that are not a JSON document.
Malformed == [k |-> "bad"]
\* A key that the enclosing object does not hold.
Absent == [k |-> "absent"]
Null == [k |-> "null"]
Str(s) == [k |-> "str", s |-> s]
Num(n) == [k |-> "num", n |-> n]
Arr(a) == [k |-> "arr", a |-> a]
\* An object from a record of members; a member given as Absent is left out.
Obj(f) == [k |-> "obj", o |-> [n \in {m \in DOMAIN f : f[m].k # "absent"} |-> f[n]]]

\* Go's map lookup m[name]: the member, or the nil interface when there is none.
Lookup(obj, name) == IF name \in DOMAIN obj.o THEN obj.o[name] ELSE Null

SeqsUpTo(S, n) == UNION {[1..m -> S] : m \in 0..n}

\* ------------------------------------------------------------ encoding/json

\* json.Unmarshal into one struct field of Go type `kind` ("str", "num", or
\* "any" for interface{}): a missing member or a null leaves the zero value,
\* a member of another JSON kind is an UnmarshalTypeError.
FieldOk(v, kind) == v.k = "null" \/ kind = "any" \/ v.k = kind

FieldVal(v, kind) ==
    CASE kind = "any" -> v
      [] kind = "str" -> IF v.k = "str" THEN v.s ELSE ""
      [] kind = "num" -> IF v.k = "num" THEN v.n ELSE 0

\* json.Unmarshal(body, &struct) for a struct whose members `names` have the
\* JSON keys `keys[n]` and the Go types `kinds[n]`.  err is TRUE on a syntax
\* error, on a top-level value that is no object (null is accepted and leaves
\* the struct zero), and on any member of the wrong kind.
jsonUnmarshal(body, keys, kinds) ==
    LET names == DOMAIN keys
        zero == [n \in names |-> FieldVal(Null, kinds[n])]
    IN  CASE body.k = "bad" -> [err |-> TRUE, val |-> zero]
          [] body.k = "null" -> [err |-> FALSE, val |-> zero]
          [] body.k = "obj" ->
                [err |-> \E n \in names : ~FieldOk(Lookup(body, keys[n]), kinds[n]),
                 val |-> [n \in names |-> FieldVal(Lookup(body, keys[n]), kinds[n])]]
          [] OTHER -> [err |-> TRUE, val |-> zero]

\* ------------------------------------------------------------ result values

\* The nil pointer and the nil error.
Nil == [k |-> "nil"]
\* The error json.Unmarshal returns.
JsonError == [k |-> "jsonError"]
\* errors.New(text + tail): text is the literal, tail the runes appended to it.
ErrorString(text, tail) == [k |-> "errorString", text |-> text, tail |-> tail]

\* ---------------------------------------------------------------- strings

\* Go's string(i) for an integer i: the UTF-8 text of the one rune i, or of
\* U+FFFD when i is no valid code point.  It is not the decimal text of i.
RuneString(i) ==
    IF i >= 0 /\ i <= 1114111 /\ ~(i >= 55296 /\ i <= 57343)
    THEN <<i>> ELSE <<65533>>

\* ------------------------------------------------------------- error model

\* plaidError: the four members read from the body and the StatusCode that
\* the caller sets from the response.
plaidErrorKeys ==
    [ErrorCode |-> "error_code", ErrorType |-> "error_type",
     ErrorMessage |-> "error_message", DisplayMessage |-> "display_message"]

plaidErrorKinds ==
    [ErrorCode |-> "str", ErrorType |-> "str",
     ErrorMessage |-> "str", DisplayMessage |-> "str"]

plaidError(val, statusCode) ==
    [k |-> "plaidError", ErrorCode |-> val.ErrorCode, ErrorType |-> val.ErrorType,
     ErrorMessage |-> val.ErrorMessage, DisplayMessage |-> val.DisplayMessage,
     StatusCode |-> statusCode]

\* plaidError.Error(): fmt.Sprintf's output as the sequence of its labelled
\* arguments, each label the text that precedes the verb in the format.
Error(e) ==
    << [label |-> "http status", arg |-> Str(e.ErrorCode)],
       [label |-> "code", arg |-> Str(e.ErrorType)],
       [label |-> "message", arg |-> Str(e.ErrorMessage)],
       [label |-> "display", arg |-> Str(e.DisplayMessage)] >>

\* ---------------------------------------------------------- response shapes

\* postResponse: of its eight members, one of each Go type that json.Unmarshal
\* can reject here (a string, a string named mfa, an int).
postResponseKeys ==
    [AccessToken |-> "access_token", MFA |-> "mfa",
     TotalTransactions |-> "total_transactions"]

postResponseKinds ==
    [AccessToken |-> "str", MFA |-> "str", TotalTransactions |-> "num"]

postResponse(val) ==
    [k |-> "postResponse", AccessToken |-> val.AccessToken, MFA |-> val.MFA,
     TotalTransactions |-> val.TotalTransactions]

mfaIntermediateKeys == [AccessToken |-> "access_token", MFA |-> "mfa", Type |-> "type"]

mfaIntermediateKinds == [AccessToken |-> "str", MFA |-> "any", Type |-> "str"]

\* mfaResponse{Type: ..., AccessToken: ...}: the other members are zero.
mfaResponse(type, accessToken) ==
    [k |-> "mfaResponse", AccessToken |-> accessToken, Type |-> type,
     Device |-> [Message |-> ""], List |-> <<>>, Questions |-> <<>>,
     Selections |-> <<>>]

deleteResponseKeys == [Message |-> "message"]

deleteResponseKinds == [Message |-> "str"]

deleteResponse(val) == [k |-> "deleteResponse", Message |-> val.Message]

\* --------------------------------------------------- the mfa sub-decoders

\* What a sub-decoder hands back: the error it returns (Nil when none) and
\* the mfaResponse as filled so far.
Failed(text) == [err |-> ErrorString(text, <<>>), res |-> Nil]
Decoded(mfaRes) == [err |-> Nil, res |-> mfaRes]

\* decodeDevice, had the message member its own error text.
decodeDevice_OwnMessageText(mfa, mfaRes) ==
    IF mfa.k = "null" THEN Failed("Could not decode device mfa")
    ELSE IF mfa.k # "obj" THEN Failed("Could not decode device mfa")
    ELSE IF Lookup(mfa, "message").k # "str"
         THEN Failed("Could not decode device mfa message")
    ELSE Decoded([mfaRes EXCEPT !.Device.Message = Lookup(mfa, "message").s])

\* case "device"
decodeDevice(mfa, mfaRes) ==
    IF mfa.k = "null" THEN Failed("Could not decode device mfa")
    ELSE IF mfa.k # "obj" THEN Failed("Could not decode device mfa")
    ELSE IF Lookup(mfa, "message").k # "str" THEN Failed("Could not decode device mfa")
    ELSE Decoded([mfaRes EXCEPT !.Device.Message = Lookup(mfa, "message").s])

\* listLoop, had maskText and typeText changed places in the appended entry.
RECURSIVE listLoop_SwappedMembers(_, _, _)
listLoop_SwappedMembers(temp, i, mfaRes) ==
    IF i > Len(temp) THEN Decoded(mfaRes)
    ELSE IF temp[i].k # "obj" THEN Failed("Could not decode list mfa")
    ELSE IF Lookup(temp[i], "mask").k # "str" THEN Failed("Could not decode list mfa")
    ELSE IF Lookup(temp[i], "type").k # "str" THEN Failed("Could not decode list mfa")
    ELSE listLoop_SwappedMembers(temp, i + 1,
            [mfaRes EXCEPT !.List = Append(@, [Mask |-> Lookup(temp[i], "type").s,
                                               Type |-> Lookup(temp[i], "mask").s])])

\* case "list": the loop over temp from element i on.
RECURSIVE listLoop(_, _, _)
listLoop(temp, i, mfaRes) ==
    IF i > Len(temp) THEN Decoded(mfaRes)
    ELSE IF temp[i].k # "obj" THEN Failed("Could not decode list mfa")
    ELSE IF Lookup(temp[i], "mask").k # "str" THEN Failed("Could not decode list mfa")
    ELSE IF Lookup(temp[i], "type").k # "str" THEN Failed("Could not decode list mfa")
    ELSE listLoop(temp, i + 1,
            [mfaRes EXCEPT !.List = Append(@, [Mask |-> Lookup(temp[i], "mask").s,
                                               Type |-> Lookup(temp[i], "type").s])])

decodeList(mfa, mfaRes) ==
    IF mfa.k # "arr" THEN Failed("Could not decode list mfa")
    ELSE listLoop(mfa.a, 1, mfaRes)

\* case "questions": the loop over questions from element i on.
RECURSIVE questionsLoop(_, _, _)
questionsLoop(questions, i, mfaRes) ==
    IF i > Len(questions) THEN Decoded(mfaRes)
    ELSE IF questions[i].k # "obj" THEN Failed("Could not decode questions mfa")
    ELSE IF Lookup(questions[i], "question").k # "str"
         THEN Failed("Could not decode questions mfa question")
    ELSE questionsLoop(questions, i + 1,
            [mfaRes EXCEPT !.Questions =
                Append(@, [Question |-> Lookup(questions[i], "question").s])])

decodeQuestions(mfa, mfaRes) ==
    IF mfa.k # "arr" THEN Failed("Could not decode questions mfa")
    ELSE questionsLoop(mfa.a, 1, mfaRes)

\* case "selections", the inner loop: answers[i], ok = a.(string) for every
\* element from i on.  A failed assertion stores the empty string and sets ok
\* to FALSE; the next iteration overwrites ok.  ok is read after the loop.
RECURSIVE answersLoop(_, _, _, _)
answersLoop(tempAnswers, i, answers, ok) ==
    IF i > Len(tempAnswers) THEN [answers |-> answers, ok |-> ok]
    ELSE answersLoop(tempAnswers, i + 1,
            [answers EXCEPT ![i] = IF tempAnswers[i].k = "str"
                                   THEN tempAnswers[i].s ELSE ""],
            tempAnswers[i].k = "str")

\* case "selections": the loop over selections from element i on.
RECURSIVE selectionsLoop(_, _, _)
selectionsLoop(selections, i, mfaRes) ==
    IF i > Len(selections) THEN Decoded(mfaRes)
    ELSE IF selections[i].k # "obj" THEN Failed("Could not decode selections mfa")
    ELSE IF Lookup(selections[i], "answers").k # "arr"
         THEN Failed("Could not decode selections answers")
    ELSE LET tempAnswers == Lookup(selections[i], "answers").a
             \* make([]string, len(tempAnswers)); ok is TRUE from the
             \* assertion above
             loop == answersLoop(tempAnswers, 1,
                                 [j \in 1..Len(tempAnswers) |-> ""], TRUE)
         IN  IF ~loop.ok THEN Failed("Could not decode selections answers")
             ELSE IF Lookup(selections[i], "question").k # "str"
                  THEN Failed("Could not decode selections questions")
             ELSE selectionsLoop(selections, i + 1,
                    [mfaRes EXCEPT !.Selections =
                        Append(@, [Answers |-> loop.answers,
                                   Question |-> Lookup(selections[i], "question").s])])

decodeSelections(mfa, mfaRes) ==
    IF mfa.k # "arr" THEN Failed("Could not decode selections mfa")
    ELSE selectionsLoop(mfa.a, 1, mfaRes)

\* mfaSwitch, had it a default arm that rejects the tag.
mfaSwitch_RejectsUnknownTag(mfaInter, mfaRes) ==
    CASE mfaInter.Type = "device" -> decodeDevice(mfaInter.MFA, mfaRes)
      [] mfaInter.Type = "list" -> decodeList(mfaInter.MFA, mfaRes)
      [] mfaInter.Type = "questions" -> decodeQuestions(mfaInter.MFA, mfaRes)
      [] mfaInter.Type = "selections" -> decodeSelections(mfaInter.MFA, mfaRes)
      [] OTHER -> Failed("Could not decode mfa")

\* switch mfaInter.Type: a tag that is none of the four runs no sub-decoder.
mfaSwitch(mfaInter, mfaRes) ==
    CASE mfaInter.Type = "device" -> decodeDevice(mfaInter.MFA, mfaRes)
      [] mfaInter.Type = "list" -> decodeList(mfaInter.MFA, mfaRes)
      [] mfaInter.Type = "questions" -> decodeQuestions(mfaInter.MFA, mfaRes)
      [] mfaInter.Type = "selections" -> decodeSelections(mfaInter.MFA, mfaRes)
      [] OTHER -> Decoded(mfaRes)

\* ------------------------------------------------------- unmarshalPostMFA

\* The three values unmarshalPostMFA, postAndUnmarshal and patchAndUnmarshal
\* return.
Returns(postRes, mfaRes, err) == [post |-> postRes, mfa |-> mfaRes, err |-> err]

\* case res.StatusCode == 200
unmarshalSuccess(body) ==
    LET u == jsonUnmarshal(body, postResponseKeys, postResponseKinds)
    IN  IF u.err THEN Returns(Nil, Nil, JsonError)
        ELSE Returns(postResponse(u.val), Nil, Nil)

\* unmarshalMFA, had it returned &postRes beside &mfaRes.
unmarshalMFA_AlsoPostRes(body) ==
    LET u == jsonUnmarshal(body, mfaIntermediateKeys, mfaIntermediateKinds)
    IN  IF u.err THEN Returns(Nil, Nil, JsonError)
        ELSE LET d == mfaSwitch(u.val, mfaResponse(u.val.Type, u.val.AccessToken))
             IN  IF d.err # Nil THEN Returns(Nil, Nil, d.err)
                 ELSE Returns(postResponse(jsonUnmarshal(Null, postResponseKeys,
                                                         postResponseKinds).val),
                              d.res, Nil)

\* case res.StatusCode == 201
unmarshalMFA(body) ==
    LET u == jsonUnmarshal(body, mfaIntermediateKeys, mfaIntermediateKinds)
    IN  IF u.err THEN Returns(Nil, Nil, JsonError)
        ELSE LET d == mfaSwitch(u.val, mfaResponse(u.val.Type, u.val.AccessToken))
             IN  IF d.err # Nil THEN Returns(Nil, Nil, d.err)
                 ELSE Returns(Nil, d.res, Nil)

\* unmarshalError, had plaidErr.StatusCode been left unset.
unmarshalError_StatusUnset(statusCode, body) ==
    LET u == jsonUnmarshal(body, plaidErrorKeys, plaidErrorKinds)
    IN  IF u.err THEN Returns(Nil, Nil, JsonError)
        ELSE Returns(Nil, Nil, plaidError(u.val, 0))

\* case res.StatusCode >= 400
unmarshalError(statusCode, body) ==
    LET u == jsonUnmarshal(body, plaidErrorKeys, plaidErrorKinds)
    IN  IF u.err THEN Returns(Nil, Nil, JsonError)
        ELSE Returns(Nil, Nil, plaidError(u.val, statusCode))

\* The return after the switch.
unknownStatus(statusCode) ==
    Returns(Nil, Nil, ErrorString("Unknown Plaid Error - Status:", RuneString(statusCode)))

unmarshalPostMFA(statusCode, body) ==
    CASE statusCode = 200 -> unmarshalSuccess(body)
      [] statusCode = 201 -> unmarshalMFA(body)
      [] statusCode >= 400 -> unmarshalError(statusCode, body)
      [] OTHER -> unknownStatus(statusCode)

\* deleteAndUnmarshal's decoding of the response: its two return values.
unmarshalDelete(statusCode, body) ==
    IF statusCode = 200
    THEN LET u == jsonUnmarshal(body, deleteResponseKeys, deleteResponseKinds)
         IN  IF u.err THEN [del |-> Nil, err |-> JsonError]
             ELSE [del |-> deleteResponse(u.val), err |-> Nil]
    ELSE LET u == jsonUnmarshal(body, plaidErrorKeys, plaidErrorKinds)
         IN  IF u.err THEN [del |-> Nil, err |-> JsonError]
             ELSE [del |-> Nil, err |-> plaidError(u.val, statusCode)]

\* The structure getAndUnmarshal's caller passes: an Institution.
institutionKeys == [Name |-> "name"]

institutionKinds == [Name |-> "str"]

\* getAndUnmarshal's decoding of the response: what it leaves in structure
\* (Nil when json.Unmarshal did not fill it) and the error it returns.
unmarshalGet(statusCode, body) ==
    IF statusCode = 200
    THEN LET u == jsonUnmarshal(body, institutionKeys, institutionKinds)
         IN  IF u.err THEN [structure |-> Nil, err |-> JsonError]
             ELSE [structure |-> [k |-> "Institution", Name |-> u.val.Name],
                   err |-> Nil]
    ELSE LET u == jsonUnmarshal(body, plaidErrorKeys, plaidErrorKinds)
         IN  IF u.err THEN [structure |-> Nil, err |-> JsonError]
             ELSE [structure |-> Nil, err |-> plaidError(u.val, statusCode)]

\* ------------------------------------------------- what the server may send

StatusCodes == {100, 200, 201, 204, 302, 399, 400, 404, 500}

AnswerAtoms == {Str("a"), Str("b"), Num(7)}

DeviceValues == {Obj([message |-> m]) : m \in {Str("call your bank"), Num(7), Absent}}

ListElems ==
    {Obj([mask |-> m, type |-> t]) :
        m \in {Str("1234"), Str("5678"), Num(7), Absent},
        t \in {Str("checking"), Num(7), Absent}} \cup {Str("x")}

QuestionElems ==
    {Obj([question |-> q]) : q \in {Str("Q1"), Str("Q2"), Num(7), Absent}}
        \cup {Str("x")}

\* Selections entries with short answers and every kind of question ...
SelectionElems ==
    {Obj([answers |-> a, question |-> q]) :
        a \in {Arr(<<>>), Arr(<<Str("a")>>), Arr(<<Num(7)>>), Str("x"), Absent},
        q \in {Str("Pick one"), Num(7), Absent}} \cup {Str("x")}

\* ... and entries with a string question and every answers array.
AnswerElems ==
    {Obj([answers |-> Arr(a), question |-> Str("Pick one")]) :
        a \in SeqsUpTo(AnswerAtoms, MaxAnswers)}

MfaSample ==
    {Null, Obj([message |-> Str("call your bank")]), Arr(<<>>),
     Arr(<<Obj([question |-> Str("Q1")])>>)}

MfaValues ==
    {Absent, Null, Str("x"), Num(7)} \cup DeviceValues
        \cup {Arr(a) : a \in SeqsUpTo(ListElems, MaxEntries)}
        \cup {Arr(a) : a \in SeqsUpTo(QuestionElems, MaxEntries)}
        \cup {Arr(a) : a \in SeqsUpTo(SelectionElems, MaxEntries)}
        \cup {Arr(<<e>>) : e \in AnswerElems}

MfaTags ==
    {Str("device"), Str("list"), Str("questions"), Str("selections"),
     Str("unknown_tag"), Str(""), Absent, Num(7)}

MfaBody(at, ty, m) == Obj([access_token |-> at, type |-> ty, mfa |-> m])

MfaBodies ==
    {MfaBody(Str("tok"), ty, m) : ty \in MfaTags, m \in MfaValues}
        \cup {MfaBody(at, ty, m) : at \in {Absent, Num(7)}, ty \in MfaTags, m \in MfaSample}

SuccessBodies ==
    {Obj([access_token |-> a, mfa |-> m, total_transactions |-> t]) :
        a \in {Str("tok"), Num(7), Absent},
        m \in {Arr(<<>>), Absent},
        t \in {Num(3), Absent}}

ErrorBodies ==
    {Obj([error_code |-> c, error_type |-> t, error_message |-> m, display_message |-> d]) :
        c \in {Str("ITEM_NOT_FOUND"), Num(7), Absent},
        t \in {Str("ITEM_ERROR"), Absent},
        m \in {Str("not found"), Num(7)},
        d \in {Str("shown"), Absent}}

DeleteBodies == {Obj([message |-> m]) : m \in {Str("Successfully removed"), Num(7)}}

CommonBodies ==
    {Malformed, Null, Str("x")} \cup SuccessBodies \cup ErrorBodies \cup DeleteBodies
        \cup {MfaBody(Str("tok"), Str("device"), m) : m \in MfaSample}

Response(statusCode, body) == [StatusCode |-> statusCode, Body |-> body]

\* Every response of the sequential specification: any status with any of the
\* common bodies, and status 201 with every challenge body.
Responses ==
    {Response(s, b) : s \in StatusCodes, b \in CommonBodies}
        \cup {Response(201, b) : b \in MfaBodies}

\* The responses of the concurrent specification.
ConcResponses ==
    {Response(200, Obj([access_token |-> Str("tok")])),
     Response(200, Obj([message |-> Str("Successfully removed")])),
     Response(201, MfaBody(Str("tok"), Str("device"), Obj([message |-> Str("call your bank")]))),
     Response(302, Null),
     Response(404, Obj([error_code |-> Str("ITEM_NOT_FOUND")])),
     Response(500, Malformed)}

\* ------------------------------------------------------------------- state

Callers == 1..NumCallers

Sandbox == "https://sandbox.plaid.com"
Production == "https://production.plaid.com"

\* client: the one Client the callers share.
\* calls[p]: caller p's call: pc is where it stands, fn the function called,
\*   res the response Do returned, raw the bytes read, bodyOpen whether res.Body
\*   is still open, out the values the call returned.
\* network[p]: the request caller p's call sent and the response sent back.
VARIABLES client, calls, network

vars == <<client, calls, network>>

NewClient(clientID, secret, environment) ==
    [clientID |-> clientID, secret |-> secret, environment |-> environment,
     httpClient |-> "&http.Client{}"]

NewCustomClient(clientID, secret, environment, httpClient) ==
    [clientID |-> clientID, secret |-> secret, environment |-> environment,
     httpClient |-> httpClient]

Clients ==
    {NewClient("client_id", "secret", Sandbox),
     NewCustomClient("client_id", "secret", Production, "appengine")}

Idle ==
    [pc |-> "idle", fn |-> "", res |-> Nil, raw |-> Nil, bodyOpen |-> FALSE,
     out |-> Nil]

Init ==
    /\ client \in Clients
    /\ calls = [p \in Callers |-> Idle]
    /\ network = [p \in Callers |-> [req |-> Nil, resp |-> Nil]]

\* The envelope Transactions marshals.
transactionJson(c, accessToken, startDate, endDate, options) ==
    [client_id |-> c.clientID, secret |-> c.secret, access_token |-> accessToken,
     start_date |-> startDate, end_date |-> endDate, options |-> options]

\* http.NewRequest and the two headers, up to the call of c.httpClient.Do.
NewRequest(c, method, endpoint, body) ==
    [method |-> method, url |-> <<c.environment, endpoint>>, body |-> body,
     contentType |-> "application/json", userAgent |-> "plaid-go",
     via |-> c.httpClient]

\* Caller p enters fn and sends req.
Send(p, fn, req) ==
    /\ calls[p].pc = "idle"
    /\ calls' = [calls EXCEPT ![p] = [Idle EXCEPT !.pc = "sent", !.fn = fn]]
    /\ network' = [network EXCEPT ![p] = [req |-> req, resp |-> Nil]]
    /\ UNCHANGED client

Transactions(p) ==
    Send(p, "Transactions",
         NewRequest(client, "POST", "/transactions/get",
                    transactionJson(client, "access", "2017-01-01", "2017-02-01",
                                    [count |-> 100, offset |-> 0])))

\* The three callers below pass the endpoint and the body their own callers
\* give them.
postAndUnmarshal(p) ==
    Send(p, "postAndUnmarshal", NewRequest(client, "POST", "/item/create", "body"))

patchAndUnmarshal(p) ==
    Send(p, "patchAndUnmarshal", NewRequest(client, "PATCH", "/item/update", "body"))

deleteAndUnmarshal(p) ==
    Send(p, "deleteAndUnmarshal", NewRequest(client, "DELETE", "/item/remove", "body"))

\* getAndUnmarshal takes the environment from its caller and no Client; http.Get
\* sends through the default client.
getAndUnmarshal(p) ==
    \E environment \in {Sandbox, Production} :
        Send(p, "getAndUnmarshal",
             [method |-> "GET", url |-> <<environment, "/institutions/get_by_id">>,
              via |-> "http.DefaultClient"])

\* The error c.httpClient.Do or ioutil.ReadAll returns.
TransportError(what) == [k |-> "transportError", what |-> what]

\* What fn returns when its transport step fails with err.
ReturnsError(fn, err) ==
    CASE fn = "Transactions" -> [post |-> Nil, err |-> err]
      [] fn = "deleteAndUnmarshal" -> [del |-> Nil, err |-> err]
      [] fn = "getAndUnmarshal" -> [structure |-> Nil, err |-> err]
      [] OTHER -> Returns(Nil, Nil, err)

\* Transactions' return: postRes and err of postAndUnmarshal, the second
\* value dropped.
TransactionsReturns(r) == [post |-> r.post, err |-> r.err]

\* What fn returns once the body is read.
ReturnsDecoded(fn, statusCode, raw) ==
    CASE fn = "Transactions" -> TransactionsReturns(unmarshalPostMFA(statusCode, raw))
      [] fn = "deleteAndUnmarshal" -> unmarshalDelete(statusCode, raw)
      [] fn = "getAndUnmarshal" -> unmarshalGet(statusCode, raw)
      [] OTHER -> unmarshalPostMFA(statusCode, raw)

\* ResponseOf, had the response been kept in one place all callers share.
ResponseOf_Shared(p) ==
    calls[CHOOSE q \in Callers : calls[q].res # Nil].res

\* The response the call of caller p reads.
ResponseOf(p) == calls[p].res

\* c.httpClient.Do (http.Get in getAndUnmarshal) fails: the call returns the
\* error.
DoFails(p) ==
    /\ calls[p].pc = "sent"
    /\ calls' = [calls EXCEPT ![p].pc = "done",
                              ![p].out = ReturnsError(calls[p].fn, TransportError("Do"))]
    /\ UNCHANGED <<client, network>>

\* c.httpClient.Do returns a response, its body open.
DoReturns(p, R) ==
    /\ calls[p].pc = "sent"
    /\ \E r \in R :
        /\ network' = [network EXCEPT ![p].resp = r]
        /\ calls' = [calls EXCEPT ![p].pc = "received", ![p].res = r,
                                  ![p].bodyOpen = TRUE]
    /\ UNCHANGED client

\* ioutil.ReadAll fails: the call returns the error, res.Body not closed.
ReadAllFails(p) ==
    /\ calls[p].pc = "received"
    /\ calls' = [calls EXCEPT ![p].pc = "done",
                              ![p].out = ReturnsError(calls[p].fn, TransportError("ReadAll"))]
    /\ UNCHANGED <<client, network>>

\* ioutil.ReadAll returns the body; res.Body.Close(); the decoding; return.
ReadAllReturns(p) ==
    /\ calls[p].pc = "received"
    /\ LET raw == ResponseOf(p).Body
       IN  calls' = [calls EXCEPT ![p].pc = "done", ![p].raw = raw,
                                  ![p].bodyOpen = FALSE,
                                  ![p].out = ReturnsDecoded(calls[p].fn,
                                                ResponseOf(p).StatusCode, raw)]
    /\ UNCHANGED <<client, network>>

\* One caller, every response.
Next ==
    \E p \in {1} :
        \/ getAndUnmarshal(p)
        \/ Transactions(p)
        \/ postAndUnmarshal(p)
        \/ patchAndUnmarshal(p)
        \/ deleteAndUnmarshal(p)
        \/ DoFails(p)
        \/ DoReturns(p, Responses)
        \/ ReadAllFails(p)
        \/ ReadAllReturns(p)

Spec == Init /\ [][Next]_vars

\* Concurrent callers on the one Client.
NextConc ==
    \E p \in Callers :
        \/ Transactions(p)
        \/ postAndUnmarshal(p)
        \/ patchAndUnmarshal(p)
        \/ deleteAndUnmarshal(p)
        \/ DoFails(p)
        \/ DoReturns(p, ConcResponses)
        \/ ReadAllFails(p)
        \/ ReadAllReturns(p)

SpecConc == Init /\ [][NextConc]_vars

\* ------------------------------------------------------------ properties

\* Member key of a body, the nil interface when the body is no object or
\* does not hold it; and the string a string member holds.
Member(b, key) == IF b.k = "obj" THEN Lookup(b, key) ELSE Null
StringOf(v) == IF v.k = "str" THEN v.s ELSE ""
IsStringOrNone(v) == v.k \in {"str", "null"}

\* Caller p's call has run unmarshalPostMFA on the response it read and has
\* returned its three values.
Unmarshalled(p) ==
    /\ calls[p].pc = "done"
    /\ calls[p].fn \in {"postAndUnmarshal", "patchAndUnmarshal"}
    /\ calls[p].raw # Nil

StatusOf(p) == calls[p].res.StatusCode
BodyOf(p) == calls[p].raw

\* How many of the three returned values are set.
Outcomes(o) == Cardinality({x \in {"post", "mfa", "err"} : o[x] # Nil})

\* The body decodes into the struct with these keys and kinds.
ParsesAs(b, keys, kinds) == ~jsonUnmarshal(b, keys, kinds).err

\* C1: whatever the status and the body, unmarshalPostMFA returns exactly one
\* of success result, challenge result and error, and the kind follows the
\* status: a success result only under 200 and always under 200 with a body
\* that parses, a challenge only under 201 and always under 201 unless an
\* error is returned, an error under every status >= 400.
C1_ExactlyOneOutcome ==
    \A p \in Callers : Unmarshalled(p) =>
        LET o == calls[p].out
            s == StatusOf(p)
        IN  /\ Outcomes(o) = 1
            /\ o.post # Nil => s = 200
            /\ o.mfa # Nil => s = 201
            /\ (s = 200 /\ ParsesAs(BodyOf(p), postResponseKeys, postResponseKinds))
                  => o.post.k = "postResponse"
            /\ (s = 201 /\ o.err = Nil) => o.mfa.k = "mfaResponse"
            /\ s >= 400 => o.err # Nil

C1_Witness ==
    \E p \in Callers :
        /\ Unmarshalled(p)
        /\ StatusOf(p) = 201
        /\ calls[p].out.mfa # Nil
        /\ calls[p].out.mfa.Questions # <<>>

\* The decimal digits of i >= 0, as runes.
RECURSIVE Itoa(_)
Itoa(i) == IF i < 10 THEN <<48 + i>> ELSE Itoa(i \div 10) \o <<48 + (i % 10)>>

\* C2: a status that is not 200, not 201 and below 400 gives an error alone,
\* and the error's text carries the status as the number it is.
C2_UnknownStatusShowsNumber ==
    \A p \in Callers :
        (Unmarshalled(p) /\ StatusOf(p) \notin {200, 201} /\ StatusOf(p) < 400) =>
            calls[p].out =
                Returns(Nil, Nil,
                        ErrorString("Unknown Plaid Error - Status:", Itoa(StatusOf(p))))

RecognizedTags == {"device", "list", "questions", "selections"}

\* A status 201 body that decodes into mfaIntermediate: null or an object
\* whose access_token and type are strings when present.
HeaderOk(b) ==
    /\ b.k \in {"obj", "null"}
    /\ IsStringOrNone(Member(b, "access_token"))
    /\ IsStringOrNone(Member(b, "type"))

TagOf(b) == StringOf(Member(b, "type"))

\* C3: under status 201 a body whose tag is none of the four, or is empty or
\* missing, gives with any mfa value no error and a challenge that holds the
\* body's type and access token and nothing else.
C3_UnknownTagEmptyChallenge ==
    \A p \in Callers :
        (Unmarshalled(p) /\ StatusOf(p) = 201 /\ HeaderOk(BodyOf(p))
            /\ TagOf(BodyOf(p)) \notin RecognizedTags) =>
            calls[p].out =
                Returns(Nil,
                        [k |-> "mfaResponse",
                         AccessToken |-> StringOf(Member(BodyOf(p), "access_token")),
                         Type |-> TagOf(BodyOf(p)),
                         Device |-> [Message |-> ""], List |-> <<>>,
                         Questions |-> <<>>, Selections |-> <<>>],
                        Nil)

C3_Witness ==
    \E p \in Callers :
        /\ Unmarshalled(p)
        /\ StatusOf(p) = 201
        /\ HeaderOk(BodyOf(p))
        /\ TagOf(BodyOf(p)) = "unknown_tag"
        /\ Member(BodyOf(p), "mfa").k = "arr"
        /\ calls[p].out.mfa # Nil

\* An mfa value of the shape its tag asks for.
AllStrings(a) == \A j \in 1..Len(a) : a[j].k = "str"

WellFormed(tag, mfa) ==
    CASE tag = "device" -> mfa.k = "obj" /\ Lookup(mfa, "message").k = "str"
      [] tag = "list" ->
            /\ mfa.k = "arr"
            /\ \A i \in 1..Len(mfa.a) :
                  /\ mfa.a[i].k = "obj"
                  /\ Lookup(mfa.a[i], "mask").k = "str"
                  /\ Lookup(mfa.a[i], "type").k = "str"
      [] tag = "questions" ->
            /\ mfa.k = "arr"
            /\ \A i \in 1..Len(mfa.a) :
                  mfa.a[i].k = "obj" /\ Lookup(mfa.a[i], "question").k = "str"
      [] tag = "selections" ->
            /\ mfa.k = "arr"
            /\ \A i \in 1..Len(mfa.a) :
                  /\ mfa.a[i].k = "obj"
                  /\ Lookup(mfa.a[i], "question").k = "str"
                  /\ Lookup(mfa.a[i], "answers").k = "arr"
                  /\ AllStrings(Lookup(mfa.a[i], "answers").a)
      [] OTHER -> FALSE

\* The payloads a well-formed mfa value must decode to, entry for entry.
PayloadOf(tag, mfa) ==
    [Device |-> [Message |-> IF tag = "device" THEN Lookup(mfa, "message").s ELSE ""],
     List |-> IF tag = "list"
              THEN [i \in 1..Len(mfa.a) |->
                        [Mask |-> Lookup(mfa.a[i], "mask").s,
                         Type |-> Lookup(mfa.a[i], "type").s]]
              ELSE <<>>,
     Questions |-> IF tag = "questions"
                   THEN [i \in 1..Len(mfa.a) |->
                            [Question |-> Lookup(mfa.a[i], "question").s]]
                   ELSE <<>>,
     Selections |-> IF tag = "selections"
                    THEN [i \in 1..Len(mfa.a) |->
                            [Answers |-> [j \in 1..Len(Lookup(mfa.a[i], "answers").a) |->
                                            Lookup(mfa.a[i], "answers").a[j].s],
                             Question |-> Lookup(mfa.a[i], "question").s]]
                    ELSE <<>>]

\* C4: under status 201, a recognized tag with a well-formed mfa value gives
\* a challenge whose payload for that tag is the input entries, member for
\* member and in the input's order, and whose other three payloads are empty.
C4_PayloadPreserved ==
    \A p \in Callers :
        (Unmarshalled(p) /\ StatusOf(p) = 201 /\ HeaderOk(BodyOf(p))
            /\ WellFormed(TagOf(BodyOf(p)), Member(BodyOf(p), "mfa"))) =>
            LET o == calls[p].out
                want == PayloadOf(TagOf(BodyOf(p)), Member(BodyOf(p), "mfa"))
            IN  /\ o.post = Nil /\ o.err = Nil /\ o.mfa # Nil
                /\ o.mfa.Device = want.Device
                /\ o.mfa.List = want.List
                /\ o.mfa.Questions = want.Questions
                /\ o.mfa.Selections = want.Selections

C4_Witness ==
    \E p \in Callers :
        /\ Unmarshalled(p)
        /\ StatusOf(p) = 201
        /\ calls[p].out.mfa # Nil
        /\ Len(calls[p].out.mfa.List) = 2
        /\ calls[p].out.mfa.List[1] # calls[p].out.mfa.List[2]

\* Some entry of a selections mfa array is no object, or holds an answers
\* member that is no array or has an element that is no string.
BadSelections(mfa) ==
    mfa.k = "arr" /\ \E i \in 1..Len(mfa.a) :
        \/ mfa.a[i].k # "obj"
        \/ Lookup(mfa.a[i], "answers").k # "arr"
        \/ ~AllStrings(Lookup(mfa.a[i], "answers").a)

\* C5: under status 201 and type "selections", an mfa array with an entry or
\* an answers element of the wrong type, at any position, gives an error and
\* no challenge.
C5_BadAnswerIsAnError ==
    \A p \in Callers :
        (Unmarshalled(p) /\ StatusOf(p) = 201 /\ HeaderOk(BodyOf(p))
            /\ TagOf(BodyOf(p)) = "selections"
            /\ BadSelections(Member(BodyOf(p), "mfa"))) =>
            calls[p].out.err # Nil /\ calls[p].out.mfa = Nil


\* The one message of tag T.
PerTagMessage(tag) ==
    CASE tag = "device" -> "Could not decode device mfa"
      [] tag = "list" -> "Could not decode list mfa"
      [] tag = "questions" -> "Could not decode questions mfa"
      [] tag = "selections" -> "Could not decode selections mfa"

\* Caller p's call failed in the mfa sub-decoding of a recognized tag: the
\* body decoded into mfaIntermediate and an error came back all the same.
SubDecodingFailed(p) ==
    /\ Unmarshalled(p)
    /\ StatusOf(p) = 201
    /\ HeaderOk(BodyOf(p))
    /\ TagOf(BodyOf(p)) \in RecognizedTags
    /\ calls[p].out.err # Nil

AllObjects(mfa) == mfa.k = "arr" /\ \A i \in 1..Len(mfa.a) : mfa.a[i].k = "obj"

ErrorShape(b) ==
    /\ b.k \in {"obj", "null"}
    /\ \A key \in {"error_code", "error_type", "error_message", "display_message"} :
          IsStringOrNone(Member(b, key))

\* C7: under a status >= 400 a body of the error shape gives, alone, a
\* plaidError with the status received and the body's error_code, error_type
\* and error_message as they are; any other body gives a decoding error alone.
C7_FailureCarriesStatusAndFields ==
    \A p \in Callers : (Unmarshalled(p) /\ StatusOf(p) >= 400) =>
        LET o == calls[p].out
            b == BodyOf(p)
        IN  /\ o.post = Nil /\ o.mfa = Nil
            /\ ErrorShape(b) =>
                  /\ o.err.k = "plaidError"
                  /\ o.err.StatusCode = StatusOf(p)
                  /\ o.err.ErrorCode = StringOf(Member(b, "error_code"))
                  /\ o.err.ErrorType = StringOf(Member(b, "error_type"))
                  /\ o.err.ErrorMessage = StringOf(Member(b, "error_message"))
            /\ ~ErrorShape(b) => o.err = JsonError

C7_Witness ==
    \E p \in Callers :
        /\ Unmarshalled(p)
        /\ StatusOf(p) = 404
        /\ calls[p].out.err.k = "plaidError"
        /\ calls[p].out.err.ErrorCode = "ITEM_NOT_FOUND"
        /\ calls[p].out.err.ErrorType = "ITEM_ERROR"
        /\ calls[p].out.err.ErrorMessage = "not found"

\* The text shows value under label.
Shows(text, label, value) ==
    \E i \in 1..Len(text) : text[i].label = label /\ text[i].arg = value

\* C8: the text of a plaidError shows the code, the type, the message and the
\* status code, each under the label that names it, so that two errors that
\* differ in the status code alone have different texts.
C8_ErrorTextCombinesAllFour ==
    \A p \in Callers :
        (calls[p].pc = "done" /\ calls[p].out.err.k = "plaidError") =>
            LET e == calls[p].out.err
            IN  /\ Shows(Error(e), "http status", Num(e.StatusCode))
                /\ Shows(Error(e), "code", Str(e.ErrorCode))
                /\ Shows(Error(e), "message", Str(e.ErrorMessage))
                /\ \E i \in 1..Len(Error(e)) : Error(e)[i].arg = Str(e.ErrorType)
                /\ \A s \in StatusCodes \ {e.StatusCode} :
                      Error([e EXCEPT !.StatusCode = s]) # Error(e)

\* What caller p's call returns for the response the network delivered to it.
OwnOutcome(p) ==
    ReturnsDecoded(calls[p].fn, network[p].resp.StatusCode, network[p].resp.Body)

\* Every request on the network was built from the client as it is now.
RequestsFromClient ==
    \A p \in Callers : network[p].req # Nil =>
        /\ network[p].req.url[1] = client.environment
        /\ network[p].req.via = client.httpClient
        /\ calls[p].fn = "Transactions" =>
              /\ network[p].req.body.client_id = client.clientID
              /\ network[p].req.body.secret = client.secret

OutcomesFromOwnResponse ==
    \A p \in Callers : (calls[p].pc = "done" /\ calls[p].raw # Nil) =>
        calls[p].out = OwnOutcome(p)

\* C9: with callers interleaved in any way on one Client, the client's
\* clientID, secret, environment and httpClient never change, and what a call
\* returns is what its own response's status and body decode to.
C9_CallsAreIndependent ==
    /\ [](RequestsFromClient /\ OutcomesFromOwnResponse)
    /\ [][client' = client]_vars

C9_Witness ==
    \E p, q \in Callers :
        /\ p # q
        /\ calls[p].pc = "done" /\ calls[p].raw # Nil
        /\ calls[q].pc = "done" /\ calls[q].raw # Nil
        /\ network[p].resp # network[q].resp
        /\ calls[p].out # calls[q].out

\* C10: Transactions returns exactly one of a success result and an error,
\* for every response and every transport failure.
C10_TransactionsNeverBothNil ==
    \A p \in Callers : (calls[p].pc = "done" /\ calls[p].fn = "Transactions") =>
        (calls[p].out.post # Nil) # (calls[p].out.err # Nil)

\* C11: a call that has obtained a response returns only once the response's
\* body is closed, after a read that succeeded and after a read that failed,
\* in getAndUnmarshal, postAndUnmarshal, patchAndUnmarshal and
\* deleteAndUnmarshal alike.
C11_BodyClosedOnReturn ==
    \A p \in Callers : (calls[p].pc = "done" /\ calls[p].res # Nil) =>
        ~calls[p].bodyOpen

====
